---- MODULE Spec2Model ----
(***************************************************************************)
(* Package shelley (internal/shelley/shelley.go): a Cmd, optionally piped  *)
(* from a sibling Cmd, executed by a terminal method (Run, Text or         *)
(* Successful).  A pipeline of n stages is built as                        *)
(*   Command(args[1]).Pipe(args[2]) ... .Pipe(args[n])                     *)
(* so stage n is the Cmd the terminal method is called on and stage c-1 is *)
(* the sibling of stage c.  Each run() of a stage with a sibling starts    *)
(* one goroutine (the sibling task) that runs the sibling and delivers the *)
(* sibling's error on the one-slot channel siblingErr.                     *)
(*                                                                         *)
(* The operating system decides three things, drawn nondeterministically:  *)
(* whether os.Pipe succeeds, whether a process starts, and the exit code   *)
(* of a started process.  exec.Cmd.Wait's stream-copy errors are outside   *)
(* the outcomes modelled here.                                             *)
(*                                                                         *)
(* Spec runs pipelines of processes that write nothing; SpecDebug adds the *)
(* DebugLogger, SpecIO processes that write and read, SpecBuild the        *)
(* builder methods, SpecExit the caller's ExitIfError, and SpecFlag is the *)
(* revision of the package that has a per-command Debug flag.  SpecLive is *)
(* Spec for a Run under fair scheduling, and SpecWriter a Context whose    *)
(* Stderr is an in-memory writer.                                          *)
(***************************************************************************)
EXTENDS Integers, Sequences, FiniteSets, TLC

\* Longest pipeline built (number of Pipe calls + 1).
MaxStages == 3
\* Largest exit code a process returns.
MaxCode == 2

VARIABLES
    n,            \* number of stages of the pipeline that was built
    method,       \* the terminal method called: "Run", "Text" or "Successful"
    debugLogger,  \* Context.DebugLogger # nil
    args,         \* Cmd.args of each stage
    sibling,      \* Cmd.sibling of each stage (0 is nil)
    cmd,          \* Cmd.cmd of each stage (the exec.Cmd and its process)
    pc,           \* where each stage's run() is
    err,          \* run()'s local err (the result of c.cmd.Run())
    siblingErr,   \* run()'s channel siblingErr: [buf, closed]
    task,         \* where the goroutine started by each stage's startSibling is
    pipe,         \* the library's handles pr, pw of each stage's os.Pipe
    result,       \* the value each stage's run() returned
    phase,        \* the terminal call: "built", "running", "returned"
    ret,          \* what the terminal call returned
    debugLog,     \* the lines printed to Context.DebugLogger
    envs,         \* Cmd.envs of each stage
    nostdout,     \* Cmd.nostdout of each stage
    nostderr,     \* Cmd.nostderr of each stage
    lastCall,     \* the builder method called last, and its receiver
    want,         \* what each process still has to write: [out, err]
    pipeFill,     \* the number of chunks buffered in each stage's pipe
    sink,         \* what Context.Stdout, Context.Stderr and Text's buffer got
    caller,       \* the calling process, as ExitIfError leaves it
    debug,        \* Cmd.debug of each stage (revision with Cmd.Debug)
    started       \* Cmd.started of each stage is closed (same revision)

\* The configuration of the Cmds besides args and sibling.
cfgVars == <<envs, nostdout, nostderr, lastCall>>
\* The data the processes write and read.
ioVars == <<want, pipeFill, sink>>
\* The fields a Cmd has only in the revision with a per-command Debug flag.
flagVars == <<debug, started>>

vars == <<n, method, debugLogger, args, sibling, cmd, pc, err, siblingErr,
          task, pipe, result, phase, ret, debugLog, cfgVars, ioVars, caller, flagVars>>

StageIds == 1..n

(***************************************************************************)
(* Errors.                                                                 *)
(***************************************************************************)
Nil == [kind |-> "nil"]
Pending == [kind |-> "pending"]
\* The error of exec.Cmd.Run for a process that could not be started.
StartError(c) == [kind |-> "start", stage |-> c]
\* The error of os.Pipe.
PipeError(c) == [kind |-> "pipe", stage |-> c]
\* *exec.ExitError: the process of stage c exited with a nonzero code.
ExecExitError(c, code) == [kind |-> "exec.ExitError", proc |-> c, code |-> code]
\* shelley.ExitError{*exec.ExitError, Args}.
ExitError(e, a) == [kind |-> "ExitError", inner |-> e, Args |-> a]

\* errors.As(err, &exitErr) with exitErr of type *exec.ExitError:
\* follows ExitError.Unwrap.
AsExecExitError(e) ==
    \/ e.kind = "exec.ExitError"
    \/ e.kind = "ExitError"

\* errors.As(err, &exitErr) with exitErr of type shelley.ExitError.
AsExitError(e) == e.kind = "ExitError"

\* ExitError.ExitCode(), promoted from the embedded *exec.ExitError.
ExitCode(e) == e.inner.code

(***************************************************************************)
(* Context: alias table and default streams.                               *)
(***************************************************************************)
\* The expansion of "al" begins with a name that is itself an alias.
Aliases ==
    [a \in {"al", "grep"} |->
       IF a = "al" THEN <<"grep", "-e">> ELSE <<"grep", "--color">>]

\* The argument vectors commands are built with.
ArgVectors == {<<"sort">>, <<"al", "h">>}

Stream(kind, of) == [kind |-> kind, of |-> of]
NilStream == Stream("nil", 0)
CtxStdin == Stream("ctx.Stdin", 0)
CtxStdout == Stream("ctx.Stdout", 0)
CtxStderr == Stream("ctx.Stderr", 0)
Buffer == Stream("bytes.Buffer", 0)
PR(c) == Stream("pr", c)
PW(c) == Stream("pw", c)

\* os.Environ(): the environment of the calling process, as "NAME=value"
\* entries, an entry being the sequence <<NAME, "=", value>>.
Environ == << <<"HOME", "=", "h">>, <<"LANG", "=", "en">> >>

NoCmd == [argv |-> <<>>, Env |-> <<>>, Stdin |-> NilStream,
          Stdout |-> NilStream, Stderr |-> NilStream, state |-> "nil",
          code |-> 0]

\* Faulty variant: the result of the expansion is expanded again.
expandedArgsTwice(c) ==
    LET once == IF args[c][1] \in DOMAIN Aliases
                THEN Aliases[args[c][1]] \o Tail(args[c])
                ELSE args[c]
    IN  IF once[1] \in DOMAIN Aliases
        THEN Aliases[once[1]] \o Tail(once)
        ELSE once
expandedArgs(c) ==
    IF args[c][1] \in DOMAIN Aliases
    THEN Aliases[args[c][1]] \o Tail(args[c])
    ELSE args[c]

\* Faulty variant: the overrides are put before the inherited environment.
initCmdEnvFirst(c) ==
    [NoCmd EXCEPT !.argv = expandedArgs(c), !.Env = envs[c] \o Environ,
                  !.state = "new"]
initCmd(c) ==
    [NoCmd EXCEPT !.argv = expandedArgs(c), !.Env = Environ \o envs[c],
                  !.state = "new"]

(***************************************************************************)
(* Debug tracing.                                                          *)
(***************************************************************************)
\* The line printed for stage c: its env overrides, then its args as built
\* (stage is not part of the text: it tells which Cmd printed the line).
DebugLine(c) == [stage |-> c, envs |-> envs[c], line |-> args[c]]

\* Faulty variant: the Cmd's own line first, the sibling's after it.
RECURSIVE logDebugDownstreamFirst(_)
logDebugDownstreamFirst(c) ==
    IF ~debugLogger THEN <<>>
    ELSE <<DebugLine(c)>>
         \o (IF sibling[c] # 0 THEN logDebugDownstreamFirst(sibling[c]) ELSE <<>>)
\* Faulty variant: the sibling is not traced.
logDebugOwnOnly(c) ==
    IF ~debugLogger THEN <<>> ELSE <<DebugLine(c)>>
RECURSIVE logDebug(_)
logDebug(c) ==
    IF ~debugLogger THEN <<>>
    ELSE (IF sibling[c] # 0 THEN logDebug(sibling[c]) ELSE <<>>)
         \o <<DebugLine(c)>>

(***************************************************************************)
(* Initial state: a pipeline of n stages has been built.                   *)
(***************************************************************************)
\* DefaultContext.DebugLogger is nil.
DefaultContextDebugLogger == FALSE

NoChan == [buf |-> <<>>, closed |-> FALSE, made |-> FALSE]
NoPipe == [pr |-> "none", pw |-> "none"]
NoRet == [pending |-> TRUE]
NoCall == [op |-> "Command", recv |-> 0]
\* A process that writes nothing: out is the data it still has to write to
\* its stdout, err the number of chunks it still has to write to its stderr.
NothingToWrite == [out |-> <<>>, err |-> 0]
\* Nothing was written yet: stdout and stderr hold the stages whose process
\* wrote to Context.Stdout and Context.Stderr, null the <<stage, stream>>
\* written to a nil stream (the null device), buffer the data in Text's buffer,
\* writing the stages with a call of Context.Stderr.Write in progress.
EmptySink ==
    [stdout |-> {}, stderr |-> {}, null |-> {}, buffer |-> <<>>, writing |-> {}]
\* The calling process before ExitIfError is called: checked is the error
\* ExitIfError was given, logged what the log package printed.
CallerRunning ==
    [state |-> "running", code |-> 0, logged |-> <<>>, checked |-> Pending]

\* No terminal method has been called on the n Cmds.
NotRun ==
    /\ cmd = [c \in 1..n |-> NoCmd]
    /\ pc = [c \in 1..n |-> "idle"]
    /\ err = [c \in 1..n |-> Pending]
    /\ siblingErr = [c \in 1..n |-> NoChan]
    /\ task = [c \in 1..n |-> "none"]
    /\ pipe = [c \in 1..n |-> NoPipe]
    /\ result = [c \in 1..n |-> Pending]
    /\ phase = "built"
    /\ ret = NoRet
    /\ debugLog = <<>>
    /\ pipeFill = [c \in 1..n |-> 0]
    /\ sink = EmptySink
    /\ caller = CallerRunning
    /\ started = [c \in 1..n |-> FALSE]

\* Cmds built by Command and Pipe alone: no Env, NoStdout or NoStderr call.
Unconfigured ==
    /\ envs = [c \in 1..n |-> <<>>]
    /\ nostdout = [c \in 1..n |-> FALSE]
    /\ nostderr = [c \in 1..n |-> FALSE]
    /\ lastCall = NoCall
    /\ debug = [c \in 1..n |-> FALSE]

Init ==
    /\ n \in 1..MaxStages
    /\ method \in {"Run", "Text", "Successful"}
    /\ debugLogger = DefaultContextDebugLogger
    /\ args \in [1..n -> ArgVectors]
    \* neighbouring stages are built with different arguments, so that the
    \* Args of an ExitError tell which of the two it names
    /\ \A c \in 2..n : args[c] # args[c - 1]
    /\ sibling = [c \in 1..n |-> c - 1]
    /\ Unconfigured
    \* the processes of this specification write nothing
    /\ want = [c \in 1..n |-> NothingToWrite]
    /\ NotRun

(***************************************************************************)
(* Run / Text / Successful, up to the call of c.run().                     *)
(***************************************************************************)
TerminalCall ==
    /\ phase = "built"
    /\ debugLog' = debugLog \o logDebug(n)
    /\ cmd' = [cmd EXCEPT ![n] =
                 IF method = "Text"
                 THEN [initCmd(n) EXCEPT !.Stdout = Buffer]
                 ELSE initCmd(n)]
    /\ pc' = [pc EXCEPT ![n] = "run"]
    /\ phase' = "running"
    /\ UNCHANGED <<n, method, debugLogger, args, sibling, err, siblingErr,
                   task, pipe, result, ret,
                   cfgVars, ioVars, caller, flagVars>>

(***************************************************************************)
(* run(): stream defaults and startSibling.                                *)
(***************************************************************************)
\* Lines 221-229: the streams of stage c's exec.Cmd x that are still nil.
\* Faulty variant: the suppression flags are not consulted.
WithDefaultsIgnoringFlags(c, x) ==
    [x EXCEPT !.Stdin  = IF @ = NilStream THEN CtxStdin ELSE @,
              !.Stdout = IF @ = NilStream THEN CtxStdout ELSE @,
              !.Stderr = IF @ = NilStream THEN CtxStderr ELSE @]
\* Faulty variant: a stream that is not suppressed is set even when it was
\* assigned before.
WithDefaultsOverAssigned(c, x) ==
    [x EXCEPT !.Stdin  = CtxStdin,
              !.Stdout = IF ~nostdout[c] THEN CtxStdout ELSE @,
              !.Stderr = IF ~nostderr[c] THEN CtxStderr ELSE @]
WithDefaults(c, x) ==
    [x EXCEPT !.Stdin  = IF @ = NilStream THEN CtxStdin ELSE @,
              !.Stdout = IF @ = NilStream /\ ~nostdout[c] THEN CtxStdout ELSE @,
              !.Stderr = IF @ = NilStream /\ ~nostderr[c] THEN CtxStderr ELSE @]

\* What run() does with the err of startSibling (lines 232-234).
\* Faulty variant: the err of startSibling is not checked.
AfterStartSiblingSkipCheck(e) == "cmdRun"
AfterStartSibling(e) == IF e # Nil THEN "done" ELSE "cmdRun"

RunBegin(c) ==
    /\ pc[c] = "run"
    /\ \/ \* no sibling: a closed, empty channel
          /\ sibling[c] = 0
          /\ siblingErr' = [siblingErr EXCEPT ![c] =
                              [buf |-> <<>>, closed |-> TRUE, made |-> TRUE]]
          /\ cmd' = [cmd EXCEPT ![c] = WithDefaults(c, @)]
          /\ pc' = [pc EXCEPT ![c] = AfterStartSibling(Nil)]
          /\ UNCHANGED <<task, pipe, result>>
       \/ \* os.Pipe fails: nothing is started
          /\ sibling[c] # 0
          /\ siblingErr' = [siblingErr EXCEPT ![c] =
                              [buf |-> <<>>, closed |-> TRUE, made |-> TRUE]]
          /\ cmd' = [cmd EXCEPT ![c] = WithDefaults(c, @)]
          /\ pc' = [pc EXCEPT ![c] = AfterStartSibling(PipeError(c))]
          /\ result' = [result EXCEPT ![c] =
                          IF AfterStartSibling(PipeError(c)) = "done"
                          THEN PipeError(c) ELSE @]
          /\ pipe' = [pipe EXCEPT ![c] = [pr |-> "failed", pw |-> "failed"]]
          /\ UNCHANGED task
       \/ \* os.Pipe succeeds: wire the pipe and start the sibling task
          /\ sibling[c] # 0
          /\ siblingErr' = [siblingErr EXCEPT ![c] =
                              [buf |-> <<>>, closed |-> FALSE, made |-> TRUE]]
          /\ pipe' = [pipe EXCEPT ![c] = [pr |-> "open", pw |-> "open"]]
          /\ cmd' = [cmd EXCEPT
                       ![sibling[c]] = [initCmd(sibling[c]) EXCEPT !.Stdout = PW(c)],
                       ![c] = [WithDefaults(c, @) EXCEPT !.Stdin = PR(c)]]
          /\ task' = [task EXCEPT ![c] = "run"]
          /\ pc' = [pc EXCEPT ![c] = AfterStartSibling(Nil),
                              ![sibling[c]] = "run"]
          /\ UNCHANGED result
    /\ UNCHANGED <<n, method, debugLogger, args, sibling, err, phase, ret,
                   debugLog,
                   cfgVars, ioVars, caller, flagVars>>

(***************************************************************************)
(* run(): c.cmd.Run(), that is Start followed by Wait.                     *)
(***************************************************************************)
\* Where run() goes once c.cmd.Run() has returned e (line 236 to line 238).
\* Faulty variant: return on a start failure without receiving from siblingErr
\* (as the revision with cmd.Start / cmd.Wait did).
AfterCmdRunReturnEarly(e) == IF e.kind = "start" THEN "done" ELSE "recv"
AfterCmdRun(e) == "recv"

CmdStart(c) ==
    /\ pc[c] = "cmdRun"
    /\ \/ \* the process starts
          /\ cmd' = [cmd EXCEPT ![c].state = "running"]
          /\ pc' = [pc EXCEPT ![c] = "wait"]
          /\ UNCHANGED <<err, result>>
       \/ \* the process cannot be started
          /\ cmd' = [cmd EXCEPT ![c].state = "startfail"]
          /\ err' = [err EXCEPT ![c] = StartError(c)]
          /\ pc' = [pc EXCEPT ![c] = AfterCmdRun(StartError(c))]
          /\ result' = [result EXCEPT ![c] =
                          IF AfterCmdRun(StartError(c)) = "done"
                          THEN StartError(c) ELSE @]
    /\ UNCHANGED <<n, method, debugLogger, args, sibling, siblingErr, task,
                   pipe, phase, ret, debugLog,
                   cfgVars, ioVars, caller, flagVars>>

\* The operating system: a running process that has written what it had to
\* write exits with some code.
ProcExit(c) ==
    /\ cmd[c].state = "running"
    /\ want[c] = NothingToWrite
    /\ \E code \in 0..MaxCode :
          cmd' = [cmd EXCEPT ![c].state = "exited", ![c].code = code]
    /\ UNCHANGED <<n, method, debugLogger, args, sibling, pc, err, siblingErr,
                   task, pipe, result, phase, ret, debugLog,
                   cfgVars, ioVars, caller, flagVars>>

\* Wait blocks until the process has exited.
\* Faulty variant: c.cmd.Start() in place of c.cmd.Run().
WaitReturnsAtOnce(state) == TRUE
WaitReturns(state) == state = "exited"

\* What Wait returns for an exited process.
WaitError(c) ==
    IF cmd[c].code = 0 THEN Nil ELSE ExecExitError(c, cmd[c].code)

CmdWait(c) ==
    /\ pc[c] = "wait"
    /\ WaitReturns(cmd[c].state)
    /\ err' = [err EXCEPT ![c] = WaitError(c)]
    /\ pc' = [pc EXCEPT ![c] = AfterCmdRun(WaitError(c))]
    /\ UNCHANGED <<n, method, debugLogger, args, sibling, cmd, siblingErr,
                   task, pipe, result, phase, ret, debugLog,
                   cfgVars, ioVars, caller, flagVars>>

(***************************************************************************)
(* run(): receive from siblingErr and merge (lines 238-246).               *)
(***************************************************************************)
\* <-siblingErr blocks until a value is buffered or the channel is closed.
\* Faulty variant: a receive that does not block (select with default).
CanReceiveNonBlocking(ch) == TRUE
\* Faulty variant: the receive yields as soon as the channel exists.
CanReceiveOnceMade(ch) == ch.made
CanReceive(ch) == ch.buf # <<>> \/ ch.closed

\* The value received: the buffered value, or nil from a closed channel.
Received(ch) == IF ch.buf # <<>> THEN Head(ch.buf) ELSE Nil

\* The value run() returns, given c.cmd.Run()'s e and the sibling's serr.
\* Faulty variants of the merge.
MergeSiblingFirst(c, e, serr) ==
    IF serr # Nil THEN serr
    ELSE IF AsExecExitError(e) THEN ExitError(e, args[c]) ELSE e
MergeDropSibling(c, e, serr) ==
    IF AsExecExitError(e) THEN ExitError(e, args[c]) ELSE e
MergeDropOther(c, e, serr) ==
    IF serr # Nil /\ e = Nil THEN serr
    ELSE IF AsExecExitError(e) THEN ExitError(e, args[c]) ELSE Nil
MergeExpandedArgs(c, e, serr) ==
    IF serr # Nil /\ e = Nil THEN serr
    ELSE IF AsExecExitError(e) THEN ExitError(e, cmd[c].argv) ELSE e
MergeIgnoreSiblingStart(c, e, serr) ==
    IF AsExitError(serr) /\ e = Nil THEN serr
    ELSE IF AsExecExitError(e) THEN ExitError(e, args[c]) ELSE e
MergeRewrap(c, e, serr) ==
    IF serr # Nil /\ e = Nil
    THEN (IF AsExecExitError(serr) THEN ExitError(serr.inner, args[c]) ELSE serr)
    ELSE IF AsExecExitError(e) THEN ExitError(e, args[c]) ELSE e
\* Faulty variant: an error the sibling itself received from further upstream
\* is not passed on.
MergeOneLinkOnly(c, e, serr) ==
    IF serr # Nil /\ e = Nil
    THEN (IF (IF AsExitError(serr) THEN serr.inner.proc ELSE serr.stage)
                = sibling[c]
          THEN serr ELSE Nil)
    ELSE IF AsExecExitError(e) THEN ExitError(e, args[c]) ELSE e
Merge(c, e, serr) ==
    IF serr # Nil /\ e = Nil THEN serr
    ELSE IF AsExecExitError(e) THEN ExitError(e, args[c]) ELSE e

Recv(c) ==
    /\ pc[c] = "recv"
    /\ CanReceive(siblingErr[c])
    /\ siblingErr' = [siblingErr EXCEPT ![c].buf =
                        IF @ # <<>> THEN Tail(@) ELSE @]
    /\ result' = [result EXCEPT ![c] = Merge(c, err[c], Received(siblingErr[c]))]
    /\ pc' = [pc EXCEPT ![c] = "done"]
    /\ UNCHANGED <<n, method, debugLogger, args, sibling, cmd, err, task,
                   pipe, phase, ret, debugLog,
                   cfgVars, ioVars, caller, flagVars>>

(***************************************************************************)
(* The sibling task (the goroutine of startSibling, lines 266-281).        *)
(***************************************************************************)
\* Faulty variant: a channel without a slot, where the send waits for the
\* receiver.
TaskSendUnbuffered(c) ==
    /\ task[c] = "run"
    /\ pc[sibling[c]] = "done"
    /\ pc[c] = "recv"
    /\ siblingErr' = [siblingErr EXCEPT
                        ![c].buf = Append(@, result[sibling[c]])]
    /\ task' = [task EXCEPT ![c] = "closeChan"]
    /\ UNCHANGED <<n, method, debugLogger, args, sibling, cmd, pc, err, pipe,
                   result, phase, ret, debugLog,
                   cfgVars, ioVars, caller, flagVars>>
\* siblingErr <- c.sibling.run(): the send, once the sibling's run() returned.
TaskSend(c) ==
    /\ task[c] = "run"
    /\ pc[sibling[c]] = "done"
    /\ Len(siblingErr[c].buf) < 1
    /\ siblingErr' = [siblingErr EXCEPT
                        ![c].buf = Append(@, result[sibling[c]])]
    /\ task' = [task EXCEPT ![c] = "closeChan"]
    /\ UNCHANGED <<n, method, debugLogger, args, sibling, cmd, pc, err, pipe,
                   result, phase, ret, debugLog,
                   cfgVars, ioVars, caller, flagVars>>

\* defer close(siblingErr)
TaskCloseChan(c) ==
    /\ task[c] = "closeChan"
    /\ siblingErr' = [siblingErr EXCEPT ![c].closed = TRUE]
    /\ task' = [task EXCEPT ![c] = "closePw"]
    /\ UNCHANGED <<n, method, debugLogger, args, sibling, cmd, pc, err, pipe,
                   result, phase, ret, debugLog,
                   cfgVars, ioVars, caller, flagVars>>

\* Faulty variant: the task leaves pw open.
TaskKeepPw(c) ==
    /\ task[c] = "closePw"
    /\ task' = [task EXCEPT ![c] = "closePr"]
    /\ UNCHANGED <<n, method, debugLogger, args, sibling, cmd, pc, err,
                   siblingErr, pipe, result, phase, ret, debugLog,
                   cfgVars, ioVars, caller, flagVars>>
\* defer pw.Close()
TaskClosePw(c) ==
    /\ task[c] = "closePw"
    /\ pipe' = [pipe EXCEPT ![c].pw = "closed"]
    /\ task' = [task EXCEPT ![c] = "closePr"]
    /\ UNCHANGED <<n, method, debugLogger, args, sibling, cmd, pc, err,
                   siblingErr, result, phase, ret, debugLog,
                   cfgVars, ioVars, caller, flagVars>>

\* defer pr.Close()
TaskClosePr(c) ==
    /\ task[c] = "closePr"
    /\ pipe' = [pipe EXCEPT ![c].pr = "closed"]
    /\ task' = [task EXCEPT ![c] = "done"]
    /\ UNCHANGED <<n, method, debugLogger, args, sibling, cmd, pc, err,
                   siblingErr, result, phase, ret, debugLog,
                   cfgVars, ioVars, caller, flagVars>>

(***************************************************************************)
(* The terminal method returns.                                            *)
(***************************************************************************)
RunReturn(e) == [err |-> e]

\* strings.TrimSpace: leading and trailing white space removed.
IsSpace(ch) == ch = " "
RECURSIVE TrimLeft(_)
TrimLeft(s) ==
    IF s = <<>> THEN s
    ELSE IF IsSpace(Head(s)) THEN TrimLeft(Tail(s)) ELSE s
RECURSIVE TrimRight(_)
TrimRight(s) ==
    IF s = <<>> THEN s
    ELSE IF IsSpace(s[Len(s)]) THEN TrimRight(SubSeq(s, 1, Len(s) - 1)) ELSE s
TrimSpace(s) == TrimRight(TrimLeft(s))

\* The captured text is the trimmed content of the in-memory buffer.
\* Faulty variant: no text is returned with an error.
TextReturnDropOnError(e) ==
    [text |-> IF e = Nil THEN TrimSpace(sink.buffer) ELSE <<>>, err |-> e]
TextReturn(e) == [text |-> TrimSpace(sink.buffer), err |-> e]
\* Faulty variant: every error is reported as (false, nil).
SuccessfulReturnSwallow(e) ==
    IF e = Nil THEN [ok |-> TRUE, err |-> Nil] ELSE [ok |-> FALSE, err |-> Nil]
SuccessfulReturn(e) ==
    IF e = Nil THEN [ok |-> TRUE, err |-> Nil]
    ELSE IF AsExitError(e) THEN [ok |-> FALSE, err |-> Nil]
    ELSE [ok |-> FALSE, err |-> e]

Return ==
    /\ phase = "running"
    /\ pc[n] = "done"
    /\ ret' = CASE method = "Run" -> RunReturn(result[n])
                [] method = "Text" -> TextReturn(result[n])
                [] method = "Successful" -> SuccessfulReturn(result[n])
    /\ phase' = "returned"
    /\ UNCHANGED <<n, method, debugLogger, args, sibling, cmd, pc, err,
                   siblingErr, task, pipe, result, debugLog,
                   cfgVars, ioVars, caller, flagVars>>

Next ==
    \/ TerminalCall
    \/ \E c \in StageIds : RunBegin(c)
    \/ \E c \in StageIds : CmdStart(c)
    \/ \E c \in StageIds : ProcExit(c)
    \/ \E c \in StageIds : CmdWait(c)
    \/ \E c \in StageIds : Recv(c)
    \/ \E c \in StageIds : TaskSend(c)
    \/ \E c \in StageIds : TaskCloseChan(c)
    \/ \E c \in StageIds : TaskClosePw(c)
    \/ \E c \in StageIds : TaskClosePr(c)
    \/ Return

Spec == Init /\ [][Next]_vars

(***************************************************************************)
(* Pipelines run against a Context with or without a DebugLogger.          *)
(***************************************************************************)
\* Longest pipeline built where tracing is looked at.
MaxTraceStages == 2

InitDebug ==
    /\ n \in 1..MaxTraceStages
    /\ method \in {"Run", "Text", "Successful"}
    /\ debugLogger \in BOOLEAN
    /\ args = [c \in 1..n |-> IF c % 2 = 1 THEN <<"sort">> ELSE <<"al", "h">>]
    /\ sibling = [c \in 1..n |-> c - 1]
    /\ Unconfigured
    /\ want = [c \in 1..n |-> NothingToWrite]
    /\ NotRun

SpecDebug == InitDebug /\ [][Next]_vars

(***************************************************************************)
(* Progress.  Goroutines are scheduled fairly, and a started process that  *)
(* writes nothing exits on its own: no step of Next stays possible forever *)
(* without being taken.                                                    *)
(***************************************************************************)
InitLive ==
    /\ n \in 1..MaxTraceStages
    /\ method = "Run"
    /\ debugLogger = DefaultContextDebugLogger
    /\ args = [c \in 1..n |-> IF c % 2 = 1 THEN <<"sort">> ELSE <<"al", "h">>]
    /\ sibling = [c \in 1..n |-> c - 1]
    /\ Unconfigured
    /\ want = [c \in 1..n |-> NothingToWrite]
    /\ NotRun

SpecLive == InitLive /\ [][Next]_vars /\ WF_vars(Next)

(***************************************************************************)
(* Processes that write and read.  A chunk is the unit of data; the pipe   *)
(* between a stage and its sibling buffers PipeCap chunks.  A write to a   *)
(* full pipe blocks while some read end is open; the read ends are the     *)
(* library's pr, until the sibling task closes it, and the stdin of the    *)
(* running primary process.  A write to a pipe without a read end kills    *)
(* the writer (SIGPIPE).  A bytes.Buffer is fed by exec.Cmd's copying      *)
(* goroutine, which Wait joins; the write reaches the buffer directly here.*)
(***************************************************************************)
\* The chunks one process writes to its stdout.
MaxOut == 2
\* The chunks a pipe buffers.
PipeCap == 1
\* Longest pipeline of writing processes.
MaxIOStages == 2

\* What a writing process writes to its stdout: white space around "a".
SomeOutput == [i \in 1..MaxOut |-> IF i % 2 = 1 THEN " " ELSE "a"]
Writes == {NothingToWrite, [out |-> SomeOutput, err |-> 1]}

\* Pipelines as built by Command and Pipe, with at most one call of NoStdout,
\* NoStderr or NoOutput, on the Cmd the terminal method is called on (who is
\* that stage, or 0 for no such call).
InitIO ==
    /\ n \in 1..MaxIOStages
    /\ method \in {"Run", "Text", "Successful"}
    /\ debugLogger = DefaultContextDebugLogger
    /\ args = [c \in 1..n |-> IF c % 2 = 1 THEN <<"sort">> ELSE <<"al", "h">>]
    /\ sibling = [c \in 1..n |-> c - 1]
    /\ envs = [c \in 1..n |-> <<>>]
    /\ \E who \in {0, n}, call \in {"NoStdout", "NoStderr", "NoOutput"} :
          /\ nostdout = [c \in 1..n |-> c = who /\ call \in {"NoStdout", "NoOutput"}]
          /\ nostderr = [c \in 1..n |-> c = who /\ call \in {"NoStderr", "NoOutput"}]
          /\ lastCall = IF who = 0 THEN NoCall ELSE [op |-> call, recv |-> who]
    /\ debug = [c \in 1..n |-> FALSE]
    \* either every process writes or none does
    /\ \E w \in Writes : want = [c \in 1..n |-> w]
    /\ NotRun

\* Some read end of stage d's pipe is open.
ReadEndOpen(d) == pipe[d].pr = "open" \/ cmd[d].state = "running"

\* A write to the stream dst does not block.
CanWrite(dst) ==
    IF dst.kind = "pw" /\ ReadEndOpen(dst.of)
    THEN pipeFill[dst.of] < PipeCap
    ELSE TRUE

\* A write to a pipe without a read end: the writer is killed by SIGPIPE.
BrokenPipe(dst) == dst.kind = "pw" /\ ~ReadEndOpen(dst.of)

\* Where a chunk ch that stage c writes to dst on stream name ends up.
Deliver(c, name, dst, ch) ==
    CASE dst = CtxStdout -> [sink EXCEPT !.stdout = @ \cup {c}]
      [] dst = CtxStderr -> [sink EXCEPT !.stderr = @ \cup {c}]
      [] dst = Buffer -> [sink EXCEPT !.buffer = Append(@, ch)]
      [] dst = NilStream -> [sink EXCEPT !.null = @ \cup {<<c, name>>}]
      [] OTHER -> sink

\* The process of stage c writes its next chunk to its stdout.
ProcWriteStdout(c) ==
    /\ cmd[c].state = "running"
    /\ want[c].out # <<>>
    /\ CanWrite(cmd[c].Stdout)
    /\ want' = [want EXCEPT ![c].out = Tail(@)]
    /\ sink' = Deliver(c, "stdout", cmd[c].Stdout, Head(want[c].out))
    /\ pipeFill' = IF cmd[c].Stdout.kind = "pw" /\ ~BrokenPipe(cmd[c].Stdout)
                   THEN [pipeFill EXCEPT ![cmd[c].Stdout.of] = @ + 1]
                   ELSE pipeFill
    /\ cmd' = IF BrokenPipe(cmd[c].Stdout)
              THEN [cmd EXCEPT ![c].state = "exited", ![c].code = -1]
              ELSE cmd
    /\ UNCHANGED <<n, method, debugLogger, args, sibling, pc, err, siblingErr,
                   task, pipe, result, phase, ret, debugLog,
                   cfgVars, caller, flagVars>>

\* The process of stage c writes a chunk to its stderr.
ProcWriteStderr(c) ==
    /\ cmd[c].state = "running"
    /\ want[c].err > 0
    /\ want' = [want EXCEPT ![c].err = @ - 1]
    /\ sink' = Deliver(c, "stderr", cmd[c].Stderr, "e")
    /\ UNCHANGED <<n, method, debugLogger, args, sibling, cmd, pc, err,
                   siblingErr, task, pipe, result, phase, ret, debugLog,
                   cfgVars, pipeFill, caller, flagVars>>

\* The process of stage c reads a chunk from the pipe on its stdin.
ProcRead(c) ==
    /\ cmd[c].state = "running"
    /\ cmd[c].Stdin = PR(c)
    /\ pipeFill[c] > 0
    /\ pipeFill' = [pipeFill EXCEPT ![c] = @ - 1]
    /\ UNCHANGED <<n, method, debugLogger, args, sibling, cmd, pc, err,
                   siblingErr, task, pipe, result, phase, ret, debugLog,
                   cfgVars, want, sink, caller, flagVars>>

NextIO ==
    \/ Next
    \/ \E c \in StageIds : ProcWriteStdout(c)
    \/ \E c \in StageIds : ProcWriteStderr(c)
    \/ \E c \in StageIds : ProcRead(c)

SpecIO == InitIO /\ [][NextIO]_vars

(***************************************************************************)
(* A Context whose Stderr is a writer that is not a file (a bytes.Buffer,  *)
(* as in the tests).  The stderr of a process then reaches the writer      *)
(* through the exec.Cmd of its stage, which calls Write once per chunk.    *)
(* Here want[c].err counts the chunks not yet handed to the writer;        *)
(* c.cmd.Run() returns once the process has exited and all were written.   *)
(***************************************************************************)
InitWriter ==
    /\ n \in 1..MaxTraceStages
    /\ method = "Run"
    /\ debugLogger = DefaultContextDebugLogger
    /\ args = [c \in 1..n |-> IF c % 2 = 1 THEN <<"sort">> ELSE <<"al", "h">>]
    /\ sibling = [c \in 1..n |-> c - 1]
    /\ Unconfigured
    /\ \E k \in 0..MaxOut : want = [c \in 1..n |-> [out |-> <<>>, err |-> k]]
    /\ NotRun

\* The exec.Cmd of stage c calls Context.Stderr.Write with the next chunk.
StderrWriteBegin(c) ==
    /\ cmd[c].state = "running"
    /\ cmd[c].Stderr = CtxStderr
    /\ want[c].err > 0
    /\ c \notin sink.writing
    /\ sink' = [sink EXCEPT !.writing = @ \cup {c}]
    /\ UNCHANGED <<n, method, debugLogger, args, sibling, cmd, pc, err,
                   siblingErr, task, pipe, result, phase, ret, debugLog,
                   cfgVars, want, pipeFill, caller, flagVars>>

\* That call of Write returns.
StderrWriteEnd(c) ==
    /\ c \in sink.writing
    /\ sink' = [sink EXCEPT !.writing = @ \ {c}, !.stderr = @ \cup {c}]
    /\ want' = [want EXCEPT ![c].err = @ - 1]
    /\ UNCHANGED <<n, method, debugLogger, args, sibling, cmd, pc, err,
                   siblingErr, task, pipe, result, phase, ret, debugLog,
                   cfgVars, pipeFill, caller, flagVars>>

NextWriter ==
    \/ Next
    \/ \E c \in StageIds : StderrWriteBegin(c)
    \/ \E c \in StageIds : StderrWriteEnd(c)

SpecWriter == InitWriter /\ [][NextWriter]_vars

(***************************************************************************)
(* The builder methods, called before the terminal method.  An entry of    *)
(* envs is the string name + "=" + value, held as <<name, "=">> \o value   *)
(* with the value a sequence of tokens (a value may contain "=").          *)
(***************************************************************************)
\* Most builder calls (Pipe, Env, NoStdout, NoStderr, NoOutput) on a pipeline.
MaxCalls == 3

EnvNames == {"LANG", "K"}
EnvValues == {<<"1">>, <<"=", "2">>}

\* The builder calls made so far: one per stage after the first, one per env
\* entry, one per stage with a suppression flag.
BuilderCalls ==
    (n - 1)
    + Cardinality({<<c, i>> \in (1..n) \X (1..MaxCalls) : i <= Len(envs[c])})
    + Cardinality({c \in 1..n : nostdout[c] \/ nostderr[c]})

\* The Cmd Pipe returns for the receiver c.
\* Faulty variant: the new Cmd inherits the receiver's envs and flags.
NewCmdInheriting(c, a) ==
    [args |-> a, sibling |-> c, envs |-> envs[c],
     nostdout |-> nostdout[c], nostderr |-> nostderr[c]]
NewCmd(c, a) ==
    [args |-> a, sibling |-> c, envs |-> <<>>,
     nostdout |-> FALSE, nostderr |-> FALSE]

Pipe(c, a) ==
    /\ phase = "built"
    /\ BuilderCalls < MaxCalls
    /\ n' = n + 1
    /\ args' = Append(args, NewCmd(c, a).args)
    /\ sibling' = Append(sibling, NewCmd(c, a).sibling)
    /\ envs' = Append(envs, NewCmd(c, a).envs)
    /\ nostdout' = Append(nostdout, NewCmd(c, a).nostdout)
    /\ nostderr' = Append(nostderr, NewCmd(c, a).nostderr)
    /\ lastCall' = [op |-> "Pipe", recv |-> c]
    \* the zero values of the new Cmd's other fields
    /\ debug' = Append(debug, FALSE)
    /\ started' = Append(started, FALSE)
    /\ cmd' = Append(cmd, NoCmd)
    /\ pc' = Append(pc, "idle")
    /\ err' = Append(err, Pending)
    /\ siblingErr' = Append(siblingErr, NoChan)
    /\ task' = Append(task, "none")
    /\ pipe' = Append(pipe, NoPipe)
    /\ result' = Append(result, Pending)
    /\ want' = Append(want, NothingToWrite)
    /\ pipeFill' = Append(pipeFill, 0)
    /\ UNCHANGED <<method, debugLogger, phase, ret, debugLog, sink, caller>>

Env(c, name, value) ==
    /\ phase = "built"
    /\ BuilderCalls < MaxCalls
    /\ envs' = [envs EXCEPT ![c] = Append(@, <<name, "=">> \o value)]
    /\ lastCall' = [op |-> "Env", recv |-> c, name |-> name, value |-> value]
    /\ UNCHANGED <<n, method, debugLogger, args, sibling, cmd, pc, err,
                   siblingErr, task, pipe, result, phase, ret, debugLog,
                   nostdout, nostderr, ioVars, caller, flagVars>>

NoStdout(c) ==
    /\ phase = "built"
    /\ BuilderCalls < MaxCalls
    /\ nostdout' = [nostdout EXCEPT ![c] = TRUE]
    /\ lastCall' = [op |-> "NoStdout", recv |-> c]
    /\ UNCHANGED <<n, method, debugLogger, args, sibling, cmd, pc, err,
                   siblingErr, task, pipe, result, phase, ret, debugLog,
                   envs, nostderr, ioVars, caller, flagVars>>

NoStderr(c) ==
    /\ phase = "built"
    /\ BuilderCalls < MaxCalls
    /\ nostderr' = [nostderr EXCEPT ![c] = TRUE]
    /\ lastCall' = [op |-> "NoStderr", recv |-> c]
    /\ UNCHANGED <<n, method, debugLogger, args, sibling, cmd, pc, err,
                   siblingErr, task, pipe, result, phase, ret, debugLog,
                   envs, nostdout, ioVars, caller, flagVars>>

\* c.NoStdout().NoStderr()
NoOutput(c) ==
    /\ phase = "built"
    /\ BuilderCalls < MaxCalls
    /\ nostdout' = [nostdout EXCEPT ![c] = TRUE]
    /\ nostderr' = [nostderr EXCEPT ![c] = TRUE]
    /\ lastCall' = [op |-> "NoOutput", recv |-> c]
    /\ UNCHANGED <<n, method, debugLogger, args, sibling, cmd, pc, err,
                   siblingErr, task, pipe, result, phase, ret, debugLog,
                   envs, ioVars, caller, flagVars>>

\* After Command(args): one Cmd, nothing configured.
InitBuild ==
    /\ n = 1
    /\ method = "Run"
    /\ debugLogger = DefaultContextDebugLogger
    /\ args \in [1..n -> ArgVectors]
    /\ sibling = [c \in 1..n |-> 0]
    /\ Unconfigured
    /\ want = [c \in 1..n |-> NothingToWrite]
    /\ NotRun

\* The builder calls, then the terminal call up to the start of the processes.
NextBuild ==
    \/ \E c \in StageIds, a \in ArgVectors : Pipe(c, a)
    \/ \E c \in StageIds, name \in EnvNames, value \in EnvValues :
          Env(c, name, value)
    \/ \E c \in StageIds : NoStdout(c)
    \/ \E c \in StageIds : NoStderr(c)
    \/ \E c \in StageIds : NoOutput(c)
    \/ TerminalCall
    \/ \E c \in StageIds : RunBegin(c)
    \/ \E c \in StageIds : CmdStart(c)

SpecBuild == InitBuild /\ [][NextBuild]_vars

\* The environment a started process sees: an entry is split at its first
\* "=", and of the entries with the same key the last one counts.
EnvKey(entry) ==
    SubSeq(entry, 1,
           (CHOOSE i \in DOMAIN entry :
               entry[i] = "=" /\ \A j \in 1..(i - 1) : entry[j] # "=") - 1)
EnvValue(entry) == SubSeq(entry, Len(EnvKey(entry)) + 2, Len(entry))
Unset == <<"unset">>
Getenv(env, key) ==
    LET at == {i \in DOMAIN env : EnvKey(env[i]) = <<key>>}
    IN  IF at = {} THEN Unset
        ELSE EnvValue(env[CHOOSE i \in at : \A j \in at : j <= i])

(***************************************************************************)
(* ExitIfError, called by the caller on the error the terminal method      *)
(* returned, as it is or wrapped in another error (fmt.Errorf with %w).    *)
(***************************************************************************)
Wrapped(e) == [kind |-> "wrapped", inner |-> e]

\* errors.As(err, &exitErr) for an ExitError target: the first ExitError in
\* err's chain, or Nil.
RECURSIVE FindExitError(_)
FindExitError(e) ==
    IF e.kind = "ExitError" THEN e
    ELSE IF e.kind = "wrapped" THEN FindExitError(e.inner)
    ELSE Nil

\* The calling process after ExitIfError(e).
\* Faulty variant: every error is logged and exits with 1.
ExitIfErrorLogsAll(e) ==
    IF e = Nil THEN [CallerRunning EXCEPT !.checked = e]
    ELSE [state |-> "exited", code |-> 1, logged |-> <<e>>, checked |-> e]
ExitIfError(e) ==
    IF e = Nil THEN [CallerRunning EXCEPT !.checked = e]
    ELSE IF FindExitError(e) # Nil
    THEN [state |-> "exited", code |-> ExitCode(FindExitError(e)),
          logged |-> <<>>, checked |-> e]
    ELSE [state |-> "exited", code |-> 1, logged |-> <<e>>, checked |-> e]

ExitIfErrorCall ==
    /\ phase = "returned"
    /\ caller = CallerRunning
    /\ \E wrap \in BOOLEAN :
          caller' = ExitIfError(IF wrap /\ ret.err # Nil
                                THEN Wrapped(ret.err) ELSE ret.err)
    /\ UNCHANGED <<n, method, debugLogger, args, sibling, cmd, pc, err,
                   siblingErr, task, pipe, result, phase, ret, debugLog,
                   cfgVars, ioVars, flagVars>>

NextExit ==
    \/ Next
    \/ ExitIfErrorCall

InitExit ==
    /\ n \in 1..MaxStages
    /\ method \in {"Run", "Text", "Successful"}
    /\ debugLogger = DefaultContextDebugLogger
    /\ args = [c \in 1..n |-> IF c % 2 = 1 THEN <<"sort">> ELSE <<"al", "h">>]
    /\ sibling = [c \in 1..n |-> c - 1]
    /\ Unconfigured
    /\ want = [c \in 1..n |-> NothingToWrite]
    /\ NotRun

SpecExit == InitExit /\ [][NextExit]_vars

(***************************************************************************)
(* The revision with a per-command Debug flag (src/unnamed/part_001).      *)
(* There a Cmd has a parent (the sibling of the other revision), a debug   *)
(* flag set by Debug(), and a channel started that run() closes once the   *)
(* process has started.  run() calls cmd.Start and cmd.Wait itself,        *)
(* returns at once when Start fails, and logDebug, called by run() of a    *)
(* Cmd with the flag, waits for the parent's started to be closed before   *)
(* it prints.  The goroutine of startParent sends the parent's result and  *)
(* closes pw and pr; the channel parentErr is never closed.                *)
(***************************************************************************)
\* Pipelines as built by Command, Pipe and Debug, on a Context that has a
\* DebugLogger (logDebug of this revision dereferences it unconditionally).
InitFlag ==
    /\ n \in 1..MaxTraceStages
    /\ method \in {"Run", "Text", "Successful"}
    /\ debugLogger = TRUE
    /\ args = [c \in 1..n |-> IF c % 2 = 1 THEN <<"sort">> ELSE <<"al", "h">>]
    /\ sibling = [c \in 1..n |-> c - 1]
    /\ envs = [c \in 1..n |-> <<>>]
    /\ nostdout = [c \in 1..n |-> FALSE]
    /\ nostderr = [c \in 1..n |-> FALSE]
    /\ lastCall = NoCall
    /\ debug \in [1..n -> BOOLEAN]
    /\ want = [c \in 1..n |-> NothingToWrite]
    /\ NotRun

\* Run / Text / Successful: initCmd, then run(); nothing is printed here.
FlagTerminalCall ==
    /\ phase = "built"
    /\ cmd' = [cmd EXCEPT ![n] =
                 IF method = "Text"
                 THEN [initCmd(n) EXCEPT !.Stdout = Buffer]
                 ELSE initCmd(n)]
    /\ started' = [started EXCEPT ![n] = FALSE]
    /\ pc' = [pc EXCEPT ![n] = "run"]
    /\ phase' = "running"
    /\ UNCHANGED <<n, method, debugLogger, args, sibling, err, siblingErr,
                   task, pipe, result, ret, debugLog,
                   cfgVars, ioVars, caller, debug>>

\* run(): stream defaults and startParent.
FlagRunBegin(c) ==
    /\ pc[c] = "run"
    /\ \/ \* no parent: the channel holds nil
          /\ sibling[c] = 0
          /\ siblingErr' = [siblingErr EXCEPT ![c] =
                              [buf |-> <<Nil>>, closed |-> FALSE, made |-> TRUE]]
          /\ cmd' = [cmd EXCEPT ![c] = WithDefaults(c, @)]
          /\ pc' = [pc EXCEPT ![c] = "debug"]
          /\ UNCHANGED <<task, pipe, result, started>>
       \/ \* os.Pipe fails: run() returns the error
          /\ sibling[c] # 0
          /\ siblingErr' = [siblingErr EXCEPT ![c] =
                              [buf |-> <<>>, closed |-> FALSE, made |-> TRUE]]
          /\ cmd' = [cmd EXCEPT ![c] = WithDefaults(c, @)]
          /\ pc' = [pc EXCEPT ![c] = "done"]
          /\ result' = [result EXCEPT ![c] = PipeError(c)]
          /\ pipe' = [pipe EXCEPT ![c] = [pr |-> "failed", pw |-> "failed"]]
          /\ UNCHANGED <<task, started>>
       \/ \* os.Pipe succeeds: init the parent, wire the pipe, start the task
          /\ sibling[c] # 0
          /\ siblingErr' = [siblingErr EXCEPT ![c] =
                              [buf |-> <<>>, closed |-> FALSE, made |-> TRUE]]
          /\ pipe' = [pipe EXCEPT ![c] = [pr |-> "open", pw |-> "open"]]
          /\ cmd' = [cmd EXCEPT
                       ![sibling[c]] = [initCmd(sibling[c]) EXCEPT !.Stdout = PW(c)],
                       ![c] = [WithDefaults(c, @) EXCEPT !.Stdin = PR(c)]]
          /\ started' = [started EXCEPT ![sibling[c]] = FALSE]
          /\ task' = [task EXCEPT ![c] = "run"]
          /\ pc' = [pc EXCEPT ![c] = "debug", ![sibling[c]] = "run"]
          /\ UNCHANGED result
    /\ UNCHANGED <<n, method, debugLogger, args, sibling, err, phase, ret,
                   debugLog, cfgVars, ioVars, caller, debug>>

\* <-c.parent.started blocks until the parent's run() has closed the channel.
ParentStarted(c) == IF sibling[c] = 0 THEN TRUE ELSE started[sibling[c]]

\* run(): if c.debug { c.logDebug() }.
FlagLogDebug(c) ==
    /\ pc[c] = "debug"
    /\ \/ /\ ~debug[c]
          /\ UNCHANGED debugLog
       \/ /\ debug[c]
          /\ ParentStarted(c)
          /\ debugLog' = Append(debugLog, DebugLine(c))
    /\ pc' = [pc EXCEPT ![c] = "start"]
    /\ UNCHANGED <<n, method, debugLogger, args, sibling, cmd, err, siblingErr,
                   task, pipe, result, phase, ret,
                   cfgVars, ioVars, caller, flagVars>>

\* run(): c.cmd.Start(); on failure return err, else close(c.started).
FlagCmdStart(c) ==
    /\ pc[c] = "start"
    /\ \/ \* the process starts
          /\ cmd' = [cmd EXCEPT ![c].state = "running"]
          /\ started' = [started EXCEPT ![c] = TRUE]
          /\ pc' = [pc EXCEPT ![c] = "wait"]
          /\ UNCHANGED <<err, result>>
       \/ \* the process cannot be started: return, parentErr is not received
          /\ cmd' = [cmd EXCEPT ![c].state = "startfail"]
          /\ err' = [err EXCEPT ![c] = StartError(c)]
          /\ pc' = [pc EXCEPT ![c] = "done"]
          /\ result' = [result EXCEPT ![c] = StartError(c)]
          /\ UNCHANGED started
    /\ UNCHANGED <<n, method, debugLogger, args, sibling, siblingErr, task,
                   pipe, phase, ret, debugLog,
                   cfgVars, ioVars, caller, debug>>

\* The goroutine of startParent: parentErr <- c.parent.run().
FlagTaskSend(c) ==
    /\ task[c] = "run"
    /\ pc[sibling[c]] = "done"
    /\ Len(siblingErr[c].buf) < 1
    /\ siblingErr' = [siblingErr EXCEPT
                        ![c].buf = Append(@, result[sibling[c]])]
    /\ task' = [task EXCEPT ![c] = "closePw"]
    /\ UNCHANGED <<n, method, debugLogger, args, sibling, cmd, pc, err, pipe,
                   result, phase, ret, debugLog,
                   cfgVars, ioVars, caller, flagVars>>

NextFlag ==
    \/ FlagTerminalCall
    \/ \E c \in StageIds : FlagRunBegin(c)
    \/ \E c \in StageIds : FlagLogDebug(c)
    \/ \E c \in StageIds : FlagCmdStart(c)
    \/ \E c \in StageIds : ProcExit(c)
    \/ \E c \in StageIds : CmdWait(c)
    \/ \E c \in StageIds : Recv(c)
    \/ \E c \in StageIds : FlagTaskSend(c)
    \/ \E c \in StageIds : TaskClosePw(c)
    \/ \E c \in StageIds : TaskClosePr(c)
    \/ Return

SpecFlag == InitFlag /\ [][NextFlag]_vars

(***************************************************************************)
(* Vocabulary of the properties.                                           *)
(***************************************************************************)
Returned == phase = "returned"
\* Run and Text return run()'s error unchanged.
ReturnsRunError == method \in {"Run", "Text"}
HasSibling(c) == sibling[c] # 0

Started(c) == cmd[c].state \in {"running", "exited"}
Running(c) == cmd[c].state = "running"
FailedToStart(c) == cmd[c].state = "startfail"
Exited0(c) == cmd[c].state = "exited" /\ cmd[c].code = 0
ExitedNonzero(c) == cmd[c].state = "exited" /\ cmd[c].code # 0
Failed(c) == FailedToStart(c) \/ ExitedNonzero(c)
PipeFailed(c) == pipe[c].pr = "failed"
TaskStarted(c) == task[c] # "none"

\* The failure of stage c's own process, as an error value.
OwnFailure(c) ==
    IF FailedToStart(c) THEN StartError(c)
    ELSE ExitError(ExecExitError(c, cmd[c].code), args[c])

\* The sibling task of stage c has sent its result and run() of c received it.
Delivered(c) == task[c] \notin {"none", "run"} /\ siblingErr[c].buf = <<>>

(***************************************************************************)
(* C1  Pipefail: when the primary of a pipeline started and exited 0 and   *)
(* its sibling's run yielded a non-nil error, Run/Text return exactly the  *)
(* sibling's error; in a two-stage pipeline that is the upstream process's *)
(* own failure.                                                            *)
(***************************************************************************)
C1_Pipefail ==
    (Returned /\ ReturnsRunError /\ HasSibling(n) /\ Exited0(n)
       /\ result[sibling[n]] # Nil)
    => /\ ret.err = result[sibling[n]]
       /\ ret.err # Nil
       /\ n = 2 => ret.err = OwnFailure(1)

C1_Witness ==
    /\ Returned /\ method = "Run" /\ n = 2
    /\ Exited0(2) /\ ExitedNonzero(1)
    /\ ret.err = ExitError(ExecExitError(1, cmd[1].code), args[1])

(***************************************************************************)
(* C2  Primary precedence: when the primary's own process failed (nonzero  *)
(* exit or failure to start), Run/Text return the primary's failure,      *)
(* whatever the sibling did.                                               *)
(***************************************************************************)
C2_PrimaryPrecedence ==
    (Returned /\ ReturnsRunError /\ HasSibling(n) /\ Failed(n))
    => /\ ret.err = OwnFailure(n)
       /\ ret.err # result[sibling[n]]

C2_Witness ==
    /\ Returned /\ method = "Run" /\ n = 2
    /\ ExitedNonzero(2) /\ FailedToStart(1)
    /\ ret.err = OwnFailure(2)

(***************************************************************************)
(* C3  Run returns nil exactly when every pipe was opened and every stage  *)
(* started and exited 0.                                                   *)
(***************************************************************************)
C3_RunNilIffAllSucceed ==
    (Returned /\ method = "Run")
    => (ret.err = Nil <=>
          /\ \A c \in StageIds : Exited0(c)
          /\ \A c \in StageIds : ~PipeFailed(c))

C3_Witness ==
    /\ Returned /\ method = "Run" /\ n >= 2
    /\ \A c \in StageIds : Exited0(c)
    /\ ret.err = Nil

(***************************************************************************)
(* C4  A command without sibling whose process exits with code N > 0:      *)
(* Run returns an ExitError with code N whose Args are the arguments the   *)
(* Cmd was built with, not the alias expansion.                            *)
(***************************************************************************)
C4_ExitErrorCodeAndArgs ==
    (Returned /\ method = "Run" /\ n = 1 /\ ExitedNonzero(1))
    => /\ AsExitError(ret.err)
       /\ ExitCode(ret.err) = cmd[1].code
       /\ ret.err.Args = args[1]
       /\ args[1][1] \in DOMAIN Aliases => ret.err.Args # cmd[1].argv

C4_Witness ==
    /\ Returned /\ method = "Run" /\ n = 1
    /\ cmd[1].state = "exited" /\ cmd[1].code = MaxCode
    /\ args[1][1] \in DOMAIN Aliases
    /\ AsExitError(ret.err)

(***************************************************************************)
(* C5  An ExitError returned by Run/Text names the stage whose own process *)
(* exited nonzero: its Args are that stage's args and its code that        *)
(* process's exit code.                                                    *)
(***************************************************************************)
C5_ExitErrorOrigin ==
    (Returned /\ ReturnsRunError /\ AsExitError(ret.err))
    => LET o == ret.err.inner.proc
       IN  /\ o \in StageIds
           /\ ExitedNonzero(o)
           /\ ret.err.inner.code = cmd[o].code
           /\ ret.err.Args = args[o]

C5_Witness ==
    /\ Returned /\ method = "Text" /\ n >= 2
    /\ Exited0(n)
    /\ AsExitError(ret.err)
    /\ ret.err.inner.proc = n - 1
    /\ ret.err.Args = args[n - 1]
    /\ ret.err.Args # args[n]

(***************************************************************************)
(* C6  Merge determinism: the error Run/Text return is the value of a      *)
(* function of the stages' outcomes alone (pipe opened or not, process     *)
(* failed to start or exit code), the same in every interleaving.          *)
(***************************************************************************)
RECURSIVE MergedOutcome(_)
MergedOutcome(c) ==
    IF PipeFailed(c) THEN PipeError(c)
    ELSE IF Failed(c) THEN OwnFailure(c)
    ELSE IF HasSibling(c) THEN MergedOutcome(sibling[c])
    ELSE Nil

C6_MergeDeterminism ==
    (Returned /\ ReturnsRunError) => ret.err = MergedOutcome(n)

C6_Witness ==
    /\ Returned /\ method = "Run" /\ n = 2
    /\ ExitedNonzero(1) /\ Exited0(2)
    /\ task[2] = "done"
    /\ ret.err = MergedOutcome(2)

(***************************************************************************)
(* C7  When the terminal method has returned, no process of the pipeline   *)
(* is running, no run() is still executing, and every sibling task that    *)
(* was started has delivered its result to its caller.                     *)
(***************************************************************************)
C7_ReturnAfterAllExited ==
    Returned =>
       \A c \in StageIds :
          /\ ~Running(c)
          /\ pc[c] \in {"idle", "done"}
          /\ TaskStarted(c) => Delivered(c)

C7_Witness ==
    /\ Returned /\ n >= 2
    /\ \A c \in StageIds : cmd[c].state = "exited"
    /\ \A c \in StageIds : HasSibling(c) => Delivered(c)

(***************************************************************************)
(* C8  When the primary fails to start after the sibling task was started, *)
(* the terminal call returns the primary's start failure, and only after   *)
(* run() has received the sibling task's result.                           *)
(***************************************************************************)
C8_StartFailureJoinsSibling ==
    /\ (Returned /\ HasSibling(n) /\ FailedToStart(n))
       => /\ ret.err = StartError(n)
          /\ Delivered(n)
          /\ pc[sibling[n]] = "done"
    /\ \A c \in StageIds :
          (pc[c] = "done" /\ FailedToStart(c) /\ TaskStarted(c))
          => Delivered(c) /\ result[c] = StartError(c)

C8_Witness ==
    /\ Returned /\ n = 2
    /\ FailedToStart(2)
    /\ cmd[1].state = "exited"
    /\ ret.err = StartError(2)

(***************************************************************************)
(* C9  As stated: whenever any stage failed to start, the terminal call    *)
(* returns a start failure, never nil and never an ExitError.              *)
(***************************************************************************)
C9_Original ==
    (Returned /\ \E c \in StageIds : FailedToStart(c))
    => ret.err.kind = "start"

(***************************************************************************)
(* C9  Amended: when a stage failed to start and every stage downstream of *)
(* it started and exited 0, every terminal method returns that stage's     *)
(* start failure: non-nil, not an ExitError, and Successful returns        *)
(* (false, err).                                                           *)
(***************************************************************************)
C9_StartFailureSurfaced ==
    \A c \in StageIds :
       (Returned /\ FailedToStart(c) /\ \A d \in (c + 1)..n : Exited0(d))
       => /\ ret.err = StartError(c)
          /\ ~AsExitError(ret.err)
          /\ method = "Successful" => ret.ok = FALSE

C9_Witness ==
    /\ Returned /\ method = "Successful" /\ n = 2
    /\ FailedToStart(1) /\ Exited0(2)
    /\ ret = [ok |-> FALSE, err |-> StartError(1)]

(***************************************************************************)
(* C10  When os.Pipe fails in a run(), that run() returns the pipe error   *)
(* itself and starts neither its sibling's process, nor its own process,   *)
(* nor the sibling task; when it is the terminal Cmd's pipe, the terminal  *)
(* call returns the pipe error and no process at all was started.          *)
(***************************************************************************)
C10_PipeFailureStartsNothing ==
    /\ \A c \in StageIds :
          PipeFailed(c)
          => /\ pc[c] = "done"
             /\ result[c] = PipeError(c)
             /\ cmd[c].state = "new"
             /\ cmd[sibling[c]].state = "nil"
             /\ ~TaskStarted(c)
    /\ (Returned /\ PipeFailed(n))
       => /\ ret.err = PipeError(n)
          /\ ~AsExitError(ret.err)
          /\ \A c \in StageIds : ~Started(c) /\ ~FailedToStart(c) /\ ~TaskStarted(c)

C10_Witness ==
    /\ Returned /\ n >= 2
    /\ PipeFailed(n)
    /\ ret.err = PipeError(n)

(***************************************************************************)
(* C11  Successful returns (true, nil) exactly when run() returned nil     *)
(* (every stage exited 0), (false, nil) exactly when run() returned an     *)
(* ExitError (some process's nonzero exit, the primary's or one propagated *)
(* from a sibling), and (false, err) with err the non-nil run() error in   *)
(* every other case; never (true, non-nil).                                *)
(***************************************************************************)
C11_SuccessfulClassifies ==
    (Returned /\ method = "Successful")
    => LET r == MergedOutcome(n)
       IN  /\ result[n] = r
           /\ (ret = [ok |-> TRUE, err |-> Nil]) <=> (r = Nil)
           /\ (ret = [ok |-> FALSE, err |-> Nil]) <=> AsExitError(r)
           /\ (r # Nil /\ ~AsExitError(r)) => ret = [ok |-> FALSE, err |-> r]
           /\ ~(ret.ok /\ ret.err # Nil)
           /\ ret.ok <=> \A c \in StageIds : Exited0(c)
           /\ ret.err # Nil => r.kind \in {"start", "pipe"}

C11_Witness ==
    /\ Returned /\ method = "Successful" /\ n = 2
    /\ Exited0(2) /\ ExitedNonzero(1)
    /\ ret = [ok |-> FALSE, err |-> Nil]

(***************************************************************************)
(* Vocabulary of the tracing properties.                                   *)
(***************************************************************************)
\* The stages whose lines the debug sink holds, in the order written.
LoggedStages == [i \in DOMAIN debugLog |-> debugLog[i].stage]
\* The number of lines stage c has written.
LineCount(c) == Cardinality({i \in DOMAIN debugLog : debugLog[i].stage = c})
ProcessAttempted(c) == Started(c) \/ FailedToStart(c)

(***************************************************************************)
(* C12  Debug ordering: with a debug sink, the lines of a pipeline are in  *)
(* the sink upstream first: a stage's line never precedes its sibling's,   *)
(* in every state of every run; for two stages the sink holds the          *)
(* upstream line, then the downstream line.                                *)
(***************************************************************************)
C12_DebugOrdering ==
    /\ \A i, j \in DOMAIN debugLog :
          i < j => debugLog[i].stage < debugLog[j].stage
    /\ (debugLogger /\ phase # "built")
       => /\ LoggedStages = [i \in 1..n |-> i]
          /\ \A c \in StageIds : debugLog[c] = DebugLine(c)

C12_Witness ==
    /\ Returned /\ debugLogger /\ n = 2
    /\ \A c \in StageIds : Exited0(c)
    /\ LoggedStages = <<1, 2>>

(***************************************************************************)
(* C13  With a debug sink every stage writes exactly one line per terminal *)
(* call, and has written it before its own process is started; without a   *)
(* debug sink no line is written.                                          *)
(***************************************************************************)
C13_OneLineBeforeStart ==
    /\ ~debugLogger => debugLog = <<>>
    /\ \A c \in StageIds :
          /\ LineCount(c) <= 1
          /\ (debugLogger /\ ProcessAttempted(c)) => LineCount(c) = 1
          /\ (debugLogger /\ Returned) => LineCount(c) = 1

C13_Witness ==
    /\ debugLogger /\ n = 2
    /\ cmd[1].state = "running" /\ cmd[2].state = "new"
    /\ LineCount(1) = 1 /\ LineCount(2) = 1

(***************************************************************************)
(* C14  Tracing is opted into per command: a stage writes a trace line if  *)
(* and only if Debug() was called on that stage itself.  Checked where the *)
(* terminal call can take no further step: every stage whose run() was     *)
(* entered and got its pipe has written its line exactly when its flag is  *)
(* set.                                                                    *)
(***************************************************************************)
RunEntered(c) == pc[c] # "idle"

C14_TracedIffEnabled ==
    ~ENABLED NextFlag
    => \A c \in StageIds :
          (RunEntered(c) /\ ~PipeFailed(c))
          => (LineCount(c) = 1 <=> debug[c])

(***************************************************************************)
(* C15  Suppression: under Run or Successful, Context.Stdout receives      *)
(* nothing from the process of a stage with nostdout, and Context.Stderr   *)
(* nothing from the process of a stage with nostderr, whatever the         *)
(* process writes; NoOutput sets both flags.                               *)
(***************************************************************************)
C15_Suppression ==
    method \in {"Run", "Successful"}
    => \A c \in StageIds :
          /\ nostdout[c] => c \notin sink.stdout
          /\ nostderr[c] => c \notin sink.stderr

C15_Witness ==
    /\ Returned /\ method = "Run"
    /\ lastCall = [op |-> "NoOutput", recv |-> n]
    /\ <<n, "stdout">> \in sink.null
    /\ <<n, "stderr">> \in sink.null
    /\ n \notin sink.stdout /\ n \notin sink.stderr

(***************************************************************************)
(* C16  Text sends the primary's stdout to its in-memory buffer only:      *)
(* Context.Stdout and the null device get nothing of it, with or without   *)
(* nostdout; the buffer holds what the process wrote so far, and Text      *)
(* returns the buffer's content (trimmed) together with run()'s error,     *)
(* also when that error is not nil.                                        *)
(***************************************************************************)
C16_TextCaptures ==
    method = "Text"
    => /\ n \notin sink.stdout
       /\ <<n, "stdout">> \notin sink.null
       /\ Started(n) => sink.buffer \o want[n].out \in {<<>>, SomeOutput}
       /\ Returned
          => /\ ret.err = result[n]
             /\ ret.text = TrimSpace(sink.buffer)
             /\ Started(n) => want[n].out = <<>>

C16_Witness ==
    /\ Returned /\ method = "Text"
    /\ nostdout[n]
    /\ sink.buffer = SomeOutput
    /\ ret.text = <<"a">>
    /\ ret.err # Nil

(***************************************************************************)
(* C20  No deadlock on early downstream exit: in a two-stage pipeline      *)
(* whose primary process has exited while the sibling process still has    *)
(* output to write, the terminal call can always take a further step       *)
(* (it is not stuck with the sibling blocked on its write and the caller   *)
(* blocked on the sibling's result).                                       *)
(***************************************************************************)
C20_EarlyExitNotStuck ==
    (/\ n = 2
     /\ phase = "running"
     /\ cmd[2].state = "exited"
     /\ cmd[1].state = "running"
     /\ want[1].out # <<>>)
    => ENABLED NextIO

(***************************************************************************)
(* C17  Pipe returns a new Cmd whose sibling is the receiver and whose     *)
(* envs and suppression flags are empty/false, and leaves the args, envs,  *)
(* flags and sibling of every existing Cmd unchanged; any other step       *)
(* changes the envs or flags of no Cmd but the receiver of the builder     *)
(* call it is (so calls on the new Cmd never change the receiver of Pipe). *)
(***************************************************************************)
Config(c) == <<args[c], sibling[c], envs[c], nostdout[c], nostderr[c]>>

C17_PipeFrame ==
    [][/\ n' = n + 1
          => /\ lastCall'.op = "Pipe"
             /\ sibling'[n'] = lastCall'.recv
             /\ envs'[n'] = <<>>
             /\ ~nostdout'[n'] /\ ~nostderr'[n']
             /\ \A c \in 1..n : Config(c)' = Config(c)
       /\ n' = n
          => \A c \in 1..n :
                Config(c)' # Config(c)
                => /\ lastCall'.recv = c
                   /\ lastCall'.op \in {"Env", "NoStdout", "NoStderr", "NoOutput"}
                   /\ args'[c] = args[c] /\ sibling'[c] = sibling[c]
      ]_vars

C17_Witness ==
    /\ n = 2 /\ sibling[2] = 1
    /\ Len(envs[1]) = 1 /\ nostdout[1] /\ ~nostderr[1]
    /\ lastCall.op = "Pipe" /\ lastCall.recv = 1
    /\ envs[2] = <<>> /\ ~nostdout[2] /\ ~nostderr[2]

(***************************************************************************)
(* C18  Env overrides apply in call order on top of the ambient            *)
(* environment: a started process sees, for each key, the value of the     *)
(* last Env call on its Cmd for that key, and the ambient value for a key  *)
(* never passed to Env.                                                    *)
(***************************************************************************)
EnvKeys == {"HOME", "LANG", "K"}

C18_EnvLastWins ==
    /\ \A c \in StageIds :
          Started(c)
          => \A key \in EnvKeys :
                Getenv(cmd[c].Env, key) =
                   IF Getenv(envs[c], key) # Unset
                   THEN Getenv(envs[c], key)
                   ELSE Getenv(Environ, key)
    /\ (lastCall.op = "Env" /\ Started(lastCall.recv))
       => Getenv(cmd[lastCall.recv].Env, lastCall.name) = lastCall.value

C18_Witness ==
    /\ Started(1)
    /\ Len(envs[1]) = 2
    /\ Getenv(<<envs[1][1]>>, "LANG") = <<"1">>
    /\ lastCall = [op |-> "Env", recv |-> 1, name |-> "LANG",
                   value |-> <<"=", "2">>]
    /\ Getenv(cmd[1].Env, "LANG") = <<"=", "2">>
    /\ Getenv(cmd[1].Env, "HOME") = <<"h">>
    /\ Getenv(cmd[1].Env, "K") = Unset

(***************************************************************************)
(* C19  ExitIfError: for a nil error the caller goes on, nothing logged;   *)
(* for an error that is or wraps an ExitError, also one that came from an  *)
(* upstream stage, the caller exits with the exit code of the process the  *)
(* ExitError names, nothing logged; for any other error the error is       *)
(* logged and the caller exits with code 1.                                *)
(***************************************************************************)
C19_ExitIfError ==
    caller.checked # Pending
    => /\ caller.checked \in {ret.err, Wrapped(ret.err)}
       /\ CASE ret.err = Nil ->
                 caller = [CallerRunning EXCEPT !.checked = Nil]
            [] ret.err.kind = "ExitError" ->
                 /\ caller.state = "exited"
                 /\ caller.code = cmd[ret.err.inner.proc].code
                 /\ caller.code # 0
                 /\ caller.logged = <<>>
            [] OTHER ->
                 /\ caller.state = "exited"
                 /\ caller.code = 1
                 /\ caller.logged = <<caller.checked>>

C19_Witness ==
    /\ n = 2
    /\ caller.state = "exited"
    /\ caller.checked = Wrapped(ret.err)
    /\ ret.err.kind = "ExitError"
    /\ ret.err.inner.proc = 1
    /\ Exited0(2)
    /\ caller.code = 2 /\ cmd[1].code = 2
    /\ caller.logged = <<>>

(***************************************************************************)
(* C21  A terminal call on a two-stage pipeline in which a process failed  *)
(* to start returns in the end: until it has returned some step of the     *)
(* call, of its task or of a started process is possible (a process takes  *)
(* its steps on its own: it writes while the write does not block, and     *)
(* exits once it has written what it had to write).                        *)
(***************************************************************************)
C21_StartFailureNotStuck ==
    (/\ n = 2
     /\ phase = "running"
     /\ \E c \in StageIds : FailedToStart(c))
    => ENABLED NextIO

(***************************************************************************)
(* C22  The library's handles of a pipe are closed only after the          *)
(* processes that use them were started: in every state, pw of a stage's   *)
(* pipe is not closed while the sibling's process is still to be started,  *)
(* and pr is not closed while the stage's own process is still to be       *)
(* started.                                                                *)
(***************************************************************************)
\* run() of stage c has been entered and has not yet called c.cmd.Run().
StartToCome(c) == pc[c] \in {"run", "cmdRun"}

C22_ClosedAfterStart ==
    \A c \in StageIds :
       HasSibling(c)
       => /\ pipe[c].pw = "closed" => ~StartToCome(sibling[c])
          /\ pipe[c].pr = "closed" => ~StartToCome(c)

(***************************************************************************)
(* C23  End-of-file liveness: once the sibling process of a stage has      *)
(* exited or failed to start, the library's pw of that stage's pipe is     *)
(* eventually closed; and no stream of the stage's own process is ever pw, *)
(* so no reference to the write end outlives the sibling.                  *)
(***************************************************************************)
SiblingOver(c) ==
    /\ c \in StageIds
    /\ HasSibling(c)
    /\ cmd[sibling[c]].state \in {"exited", "startfail"}

PwClosed(c) == c \in StageIds /\ pipe[c].pw = "closed"

NeverHoldsPw(c) ==
    (c \in StageIds /\ HasSibling(c))
    => /\ cmd[c].Stdin # PW(c)
       /\ cmd[c].Stdout # PW(c)
       /\ cmd[c].Stderr # PW(c)

C24_NoHandleLeftOpen ==
    ~ENABLED NextIO
    => \A c \in StageIds : pipe[c].pr # "open" /\ pipe[c].pw # "open"

(***************************************************************************)
(* C25  No background work outlives the call.  As claimed: when the        *)
(* terminal call has returned, every sibling task has finished and both    *)
(* handles of every pipe are closed.                                       *)
(***************************************************************************)
C25_Original ==
    Returned
    => \A c \in StageIds :
          TaskStarted(c)
          => /\ task[c] = "done"
             /\ pipe[c].pr = "closed" /\ pipe[c].pw = "closed"

(***************************************************************************)
(* C25 (amended)  When the terminal call has returned, every sibling task  *)
(* that was started has sent its result, so the run() of every sibling has *)
(* returned and every started process has exited; what may remain of a     *)
(* task are its deferred closes, none of which waits for anything.         *)
(***************************************************************************)
C25_SiblingRunJoined ==
    Returned
    => \A c \in StageIds :
          /\ ~Running(c)
          /\ TaskStarted(c)
             => /\ task[c] # "run"
                /\ pc[sibling[c]] = "done"
                /\ task[c] # "done"
                   => ENABLED (TaskCloseChan(c) \/ TaskClosePw(c) \/ TaskClosePr(c))

C25_Witness ==
    /\ Returned /\ n = 2
    /\ task[2] = "closeChan"
    /\ pipe[2].pr = "open" /\ pipe[2].pw = "open"
    /\ Exited0(1) /\ Exited0(2)

(***************************************************************************)
(* C26  Stream wiring.  Once a pipe is open, and so before either process  *)
(* is started, the sibling's Stdout is pw and the primary's Stdin is pr.   *)
(* After the defaults of run(): an upstream stage's Stdout is the pipe     *)
(* whatever its NoStdout flag, a downstream stage's Stdin is the pipe, the *)
(* head stage's Stdin is the context's Stdin, and Stdout / Stderr are the  *)
(* context's defaults exactly when not suppressed and not redirected.      *)
(***************************************************************************)
PipeOpened(d) == HasSibling(d) /\ pipe[d].pr \in {"open", "closed"}

DefaultsApplied(c) == pc[c] \notin {"idle", "run"}

\* The stages whose pipe takes the Stdout of stage c.
Downstream(c) == {d \in StageIds : PipeOpened(d) /\ sibling[d] = c}

C26_StreamWiring ==
    /\ \A d \in StageIds :
          PipeOpened(d)
          => /\ cmd[sibling[d]].Stdout = PW(d)
             /\ cmd[d].Stdin = PR(d)
    /\ \A c \in StageIds :
          /\ ProcessAttempted(c) => DefaultsApplied(c)
          /\ (ProcessAttempted(c) /\ HasSibling(c)) => PipeOpened(c)
          /\ ProcessAttempted(c) => (c = n \/ Downstream(c) # {})
          /\ DefaultsApplied(c)
             => /\ cmd[c].Stdin =
                      IF PipeOpened(c) THEN PR(c) ELSE CtxStdin
                /\ (cmd[c].Stdout = CtxStdout)
                      <=> (~nostdout[c] /\ Downstream(c) = {})
                /\ (cmd[c].Stderr = CtxStderr) <=> ~nostderr[c]
                /\ Downstream(c) = {}
                      => (cmd[c].Stdout = NilStream <=> nostdout[c])
                /\ cmd[c].Stderr = NilStream <=> nostderr[c]

C26_Witness ==
    /\ n = 2 /\ sibling[2] = 1
    /\ nostdout[1]
    /\ Running(1) /\ Running(2)
    /\ cmd[1].Stdout = PW(2) /\ cmd[1].Stdin = CtxStdin
    /\ cmd[2].Stdin = PR(2) /\ cmd[2].Stdout = CtxStdout

(***************************************************************************)
(* C27  Result rendezvous.  As claimed for the caller: it receives exactly *)
(* once per run, so a run() returns only from its receive.                 *)
(***************************************************************************)
RunReturns(c) == pc[c] # "done" /\ pc'[c] = "done"

C27_Original ==
    [][\A c \in StageIds : RunReturns(c) => pc[c] = "recv"]_vars

(***************************************************************************)
(* C27 (amended)  The channel never holds more than one value; the task    *)
(* sends exactly one value, its send is possible as soon as the sibling's  *)
(* run() has returned, whether or not anybody receives, and it never sends *)
(* on a closed channel; with no sibling the receive yields nil without     *)
(* blocking; the caller receives at most once per run, and exactly once in *)
(* every run in which startSibling returned no error: a run() that returns *)
(* without receiving is one whose os.Pipe failed.                          *)
(***************************************************************************)
ChanOk(c) ==
    /\ Len(siblingErr[c].buf) <= 1
    /\ (task[c] = "run") => (~siblingErr[c].closed /\ siblingErr[c].buf = <<>>)
    /\ (pc[c] = "recv" /\ ~HasSibling(c))
          => /\ siblingErr[c].closed
             /\ Received(siblingErr[c]) = Nil
    /\ (pc[c] = "done" /\ TaskStarted(c))
          => (task[c] # "run" /\ siblingErr[c].buf = <<>>)

SendStep(c) == Len(siblingErr'[c].buf) > Len(siblingErr[c].buf)

ReceiveStep(c) == pc[c] = "recv" /\ pc'[c] # "recv"

C27_Rendezvous ==
    [][\A c \in StageIds :
          /\ ChanOk(c) /\ ChanOk(c)'
          /\ (task[c] = "run" /\ pc[sibling[c]] = "done") => ENABLED TaskSend(c)
          /\ (pc[c] = "recv" /\ ~HasSibling(c)) => ENABLED Recv(c)
          /\ SendStep(c)
                => /\ task[c] = "run" /\ task'[c] = "closeChan"
                   /\ ~siblingErr[c].closed
                   /\ siblingErr'[c].buf = <<result[sibling[c]]>>
          /\ task'[c] = "run" => task[c] \in {"none", "run"}
          /\ ReceiveStep(c)
                => /\ pc'[c] = "done"
                   /\ siblingErr'[c].buf = <<>>
                   /\ HasSibling(c) => siblingErr[c].buf # <<>>
          /\ RunReturns(c)
                => \/ ReceiveStep(c)
                   \/ pc[c] = "run" /\ PipeFailed(c)'
          /\ pc[c] = "done" => pc'[c] = "done"
      ]_vars

C27_Witness ==
    /\ Returned /\ n = 2
    /\ task[2] = "done"
    /\ siblingErr[2].buf = <<>> /\ siblingErr[2].closed
    /\ siblingErr[1].closed
    /\ result[1] # Nil
    /\ Exited0(2)
    /\ ret.err = result[1]

(***************************************************************************)
(* C28  Chains of up to three stages: when the terminal call has returned  *)
(* and every os.Pipe succeeded, one pipe was opened and one task started   *)
(* per link (n-1 of each) and n processes were attempted; and run() of the *)
(* last stage yields the failure of the most downstream stage that failed, *)
(* or nil if no stage failed.                                              *)
(***************************************************************************)
\* The stages that failed: the own process, or the os.Pipe of the stage.
FailedStages == {c \in StageIds : Failed(c) \/ PipeFailed(c)}

MostDownstream(S) == CHOOSE c \in S : \A d \in S : d <= c

StageFailure(c) == IF PipeFailed(c) THEN PipeError(c) ELSE OwnFailure(c)

C28_Chain ==
    Returned
    => /\ (\A c \in StageIds : ~PipeFailed(c))
          => /\ Cardinality({c \in StageIds : PipeOpened(c)}) = n - 1
             /\ Cardinality({c \in StageIds : TaskStarted(c)}) = n - 1
             /\ Cardinality({c \in StageIds : ProcessAttempted(c)}) = n
             /\ \A c \in StageIds : TaskStarted(c) <=> HasSibling(c)
       /\ result[n] = IF FailedStages = {} THEN Nil
                      ELSE StageFailure(MostDownstream(FailedStages))
       /\ ReturnsRunError => ret.err = result[n]

C28_Witness ==
    /\ Returned /\ method = "Run" /\ n = 3
    /\ Exited0(3) /\ Exited0(2) /\ ExitedNonzero(1)
    /\ ret.err = OwnFailure(1)
    /\ \A c \in {2, 3} : PipeOpened(c) /\ TaskStarted(c)

(***************************************************************************)
(* C29  Alias expansion: the exec.Cmd of a stage is built with the alias   *)
(* of args[0] followed by args[1:] when args[0] is a key of the alias      *)
(* table, and with args otherwise; the result is not expanded again; the   *)
(* Cmd's args stay as they were built, and the trace lines show them.      *)
(***************************************************************************)
Initialised(c) == cmd[c].state # "nil"

BuiltArgs(c) == IF c % 2 = 1 THEN <<"sort">> ELSE <<"al", "h">>

C29_AliasExpansion ==
    /\ \A c \in StageIds :
          /\ args[c] = BuiltArgs(c)
          /\ Initialised(c)
             => /\ args[c] = <<"sort">> => cmd[c].argv = <<"sort">>
                /\ args[c] = <<"al", "h">> => cmd[c].argv = <<"grep", "-e", "h">>
                /\ cmd[c].argv =
                      IF Head(args[c]) \in DOMAIN Aliases
                      THEN Aliases[Head(args[c])] \o Tail(args[c])
                      ELSE args[c]
    /\ \A i \in 1..Len(debugLog) :
          debugLog[i].line = BuiltArgs(debugLog[i].stage)

C29_Witness ==
    /\ n = 2 /\ debugLogger
    /\ Started(1) /\ Started(2)
    /\ cmd[2].argv = <<"grep", "-e", "h">>
    /\ Head(cmd[2].argv) \in DOMAIN Aliases
    /\ cmd[1].argv = <<"sort">>
    /\ Len(debugLog) = 2
    /\ debugLog[2].line = <<"al", "h">>

(***************************************************************************)
(* C30  With no stage suppressing stderr, the calls of Write on the        *)
(* context's Stderr writer coming from the stages of a pipeline never      *)
(* overlap: at most one is in progress at any time.                        *)
(***************************************************************************)
C30_StderrWritesSerialized ==
    (\A c \in StageIds : ~nostderr[c])
    => Cardinality(sink.writing) <= 1

====
